---- MODULE Spec2Model ----
(***************************************************************************)
(* gaming_availability.py: a weekly availability grid (cells coloured per  *)
(* player and time slot) is turned into a digest of the slots in which     *)
(* enough players are available, and the digest is posted to Discord.      *)
(*                                                                         *)
(* Representation.                                                         *)
(*  - A Python str is a sequence of tokens (TLA+ strings, each standing    *)
(*    for an indivisible run of characters); " " is the whitespace token,  *)
(*    "" is the empty sequence, concatenation is \o.                       *)
(*  - A Python dict is a function whose DOMAIN is its key set (a record);  *)
(*    d.get(k, default) is Get(d, k, default).                             *)
(*  - A colour channel c in [0, 1] is the integer c * Scale.               *)
(*  - Non-ASCII characters of the rendered texts are transliterated.       *)
(***************************************************************************)
EXTENDS Integers, Sequences, FiniteSets, TLC

VARIABLES
    pc,            \* position of the running function
    \* color_to_status
    bg,            \* its argument
    ref_idx,       \* number of REFERENCE_COLORS items already visited
    best_match,
    min_dist,
    \* process_day (day_name, times, players are also build_week_message's)
    day_name,
    times,
    players,
    results,
    ci,            \* number of results the compression loop has visited
    start,
    prev_summary,
    compressed,
    day_out,       \* process_day's return value
    \* module level, build_week_message, main, send_to_discord
    rowData,
    NOW,
    DISCORD_WEBHOOK_URL,
    ri,            \* number of data rows the row loop has visited
    week_summary,
    msg,
    posted,        \* the contents requests.post has delivered to the webhook
    printed,       \* what print(msg) has written, one item per run of main
    starts         \* the wall-clock reading (NOW) of every process start so far

vars == <<pc, bg, ref_idx, best_match, min_dist, day_name, times, players,
          results, ci, start, prev_summary, compressed, day_out, rowData, NOW,
          DISCORD_WEBHOOK_URL, ri, week_summary, msg, posted, printed, starts>>

colorVars == <<bg, ref_idx, best_match, min_dist>>
dayVars == <<results, ci, start, prev_summary, compressed, day_out>>
weekVars == <<rowData, NOW, DISCORD_WEBHOOK_URL, ri, week_summary, msg, posted,
              printed, starts>>

-----------------------------------------------------------------------------
(* Bounds of the model.                                                    *)

GridBits == 1       \* colour channels range over k / 2^GridBits, k = 0 .. 2^GridBits
MaxPlayers == 4     \* player records of a day handed to process_day
MaxSlots == 5       \* time slots of a day handed to process_day
MaxRows == 2        \* data rows of a grid handed to build_week_message

Scale == 2 ^ GridBits

-----------------------------------------------------------------------------
(* Python values.                                                          *)

EmptyDict == [k \in {} |-> 0]
NoneDict == [None |-> TRUE]        \* None where a dict is expected
None == <<"<None>">>               \* None where a str is expected
Inf == -1                          \* float("inf"): see Less

Get(d, k, default) == IF k \in DOMAIN d THEN d[k] ELSE default

\* Truth value of a str-or-None / list-or-None.
Truthy(s) == s # None /\ s # <<>>
\* Truth value of a dict-or-None.
TruthyDict(d) == d # NoneDict /\ DOMAIN d # {}

\* d < m for floats, m possibly float("inf").
Less(d, m) == m = Inf \/ d < m

-----------------------------------------------------------------------------
(* Colour handling.                                                        *)

REFERENCE_COLORS ==
    << <<"available",   <<0, Scale, 0>> >>,
       <<"tentative",   <<Scale, Scale, 0>> >>,
       <<"unavailable", <<Scale, 0, 0>> >>,
       <<"unknown",     <<Scale, Scale, Scale>> >> >>

normalize_color(b) ==
    << Get(b, "red", Scale), Get(b, "green", Scale), Get(b, "blue", Scale) >>

\* math.sqrt is strictly increasing and exact enough to keep distinct sums of
\* squares of dyadic channels apart, so the distance is represented by its
\* square (times Scale^2): the loop only compares distances.
color_distance(c1, c2) ==
    (c1[1] - c2[1]) * (c1[1] - c2[1]) + (c1[2] - c2[2]) * (c1[2] - c2[2])
        + (c1[3] - c2[3]) * (c1[3] - c2[3])

\* The comparison of line 42.
CloserMutant(dist, m) == m = Inf \/ dist <= m
Closer(dist, m) == Less(dist, m)

\* One iteration of the loop of color_to_status over REFERENCE_COLORS.items():
\* the pair <<best_match, min_dist>> after visiting item k.
ColorIter(color, k, best, m) ==
    LET dist == color_distance(color, REFERENCE_COLORS[k][2])
    IN  IF Closer(dist, m) THEN <<REFERENCE_COLORS[k][1], dist>> ELSE <<best, m>>

RECURSIVE ColorLoop(_, _, _, _)
ColorLoop(color, k, best, m) ==
    IF k > Len(REFERENCE_COLORS) THEN best
    ELSE LET r == ColorIter(color, k, best, m)
         IN  ColorLoop(color, k + 1, r[1], r[2])

ColorArg(b) == normalize_color(IF TruthyDict(b) THEN b ELSE EmptyDict)

color_to_status(b) == ColorLoop(ColorArg(b), 1, "unknown", Inf)

-----------------------------------------------------------------------------
(* color_to_status, one loop iteration at a time.                          *)

Channels == 0 .. Scale
Colors == UNION { [D -> Channels] : D \in SUBSET {"red", "green", "blue"} }

idleColor == bg = EmptyDict /\ ref_idx = 0 /\ best_match = "unknown" /\ min_dist = Inf
idleDay ==
    /\ results = <<>> /\ ci = 0 /\ start = None /\ prev_summary = None
    /\ compressed = <<>> /\ day_out = None
idleWeek ==
    /\ rowData = <<>> /\ NOW = <<0, 0, 0>> /\ DISCORD_WEBHOOK_URL = <<>>
    /\ ri = 0 /\ week_summary = <<>> /\ msg = None /\ posted = <<>>
    /\ printed = <<>> /\ starts = <<>>

InitColor ==
    /\ pc = "color_loop"
    /\ bg \in Colors \cup {NoneDict}
    /\ ref_idx = 0 /\ best_match = "unknown" /\ min_dist = Inf
    /\ day_name = None /\ times = <<>> /\ players = <<>>
    /\ idleDay /\ idleWeek

ColorVisit ==
    /\ pc = "color_loop"
    /\ ref_idx < Len(REFERENCE_COLORS)
    /\ LET r == ColorIter(ColorArg(bg), ref_idx + 1, best_match, min_dist)
       IN  best_match' = r[1] /\ min_dist' = r[2]
    /\ ref_idx' = ref_idx + 1
    /\ UNCHANGED <<pc, bg, day_name, times, players, dayVars, weekVars>>

ColorReturn ==
    /\ pc = "color_loop"
    /\ ref_idx = Len(REFERENCE_COLORS)
    /\ pc' = "color_done"
    /\ UNCHANGED <<colorVars, day_name, times, players, dayVars, weekVars>>

NextColor == ColorVisit \/ ColorReturn

SpecColor == InitColor /\ [][NextColor]_vars

\* The reference colour of each state and the order the states are tried in.
RefOf(s) ==
    CASE s = "available" -> <<0, Scale, 0>>
      [] s = "tentative" -> <<Scale, Scale, 0>>
      [] s = "unavailable" -> <<Scale, 0, 0>>
      [] s = "unknown" -> <<Scale, Scale, Scale>>
OrderOf(s) ==
    CASE s = "available" -> 1
      [] s = "tentative" -> 2
      [] s = "unavailable" -> 3
      [] s = "unknown" -> 4
\* The square of the Euclidean distance from colour b to the reference of s.
SqDist(b, s) ==
    (b.red - RefOf(s)[1]) * (b.red - RefOf(s)[1])
        + (b.green - RefOf(s)[2]) * (b.green - RefOf(s)[2])
        + (b.blue - RefOf(s)[3]) * (b.blue - RefOf(s)[3])
AllStates == {"available", "tentative", "unavailable", "unknown"}
IsColor(b) == DOMAIN b = {"red", "green", "blue"}

\* C10: color_to_status returns the state of the reference colour at minimum
\* Euclidean distance, the first in the order available, tentative,
\* unavailable, unknown among several at that distance; a reference colour
\* classifies as its own state, a missing or empty colour as unknown.
C10_NearestReference ==
    pc = "color_done" =>
        /\ best_match \in AllStates
        /\ IsColor(bg) =>
              /\ \A s \in AllStates : SqDist(bg, best_match) <= SqDist(bg, s)
              /\ \A s \in AllStates :
                    SqDist(bg, s) = SqDist(bg, best_match) => OrderOf(best_match) <= OrderOf(s)
              /\ \A s \in AllStates :
                    <<bg.red, bg.green, bg.blue>> = RefOf(s) => best_match = s
        /\ (bg = NoneDict \/ DOMAIN bg = {}) => best_match = "unknown"

\* A colour halfway between green and yellow is classified as available.
C10_Witness ==
    /\ pc = "color_done"
    /\ bg = [red |-> Scale \div 2, green |-> Scale, blue |-> 0]
    /\ best_match = "available"

-----------------------------------------------------------------------------
(* process_day.                                                            *)

Range(f) == { f[k] : k \in DOMAIN f }

\* d[k] = v on a dict.
Put(d, k, v) == [x \in DOMAIN d \cup {k} |-> IF x = k THEN v ELSE d[x]]

\* Lines 102-103 for one player: every slot's dict gets the player's status,
\* under the player's name.
AssignPlayer(abt, player) ==
    [t \in DOMAIN abt |-> Put(abt[t], player[1], Get(player[2], t, "unknown"))]

RECURSIVE AssignPlayers(_, _, _)
AssignPlayers(abt, ps, k) ==
    IF k > Len(ps) THEN abt ELSE AssignPlayers(AssignPlayer(abt, ps[k]), ps, k + 1)

\* availability_by_time after the loop of lines 100-103.
availability_by_time(ts, ps) ==
    AssignPlayers([t \in Range(ts) |-> EmptyDict], ps, 1)

\* list(d.values()).count(s)
Count(d, s) == Cardinality({ n \in DOMAIN d : d[n] = s })

counts(d) ==
    [ available   |-> Count(d, "available"),
      tentative   |-> Count(d, "tentative"),
      unavailable |-> Count(d, "unavailable"),
      unknown     |-> Count(d, "unknown") ]

AllLabel == <<"(ok) Wszyscy dostepni! Lalalila">>
PossibleLabel(total_players) ==
    <<"(!) Granie mozliwe, dostepni (2/", ToString(total_players), ", 1 niepewny)">>

\* Lines 114-119 with the second rule widened to "at least 2 available".
SlotSummaryMutant(c, total_players) ==
    IF c.available = total_players THEN AllLabel
    ELSE IF c.available >= 2 THEN PossibleLabel(total_players)
    ELSE None

\* Lines 114-119: the label of a slot with counts c.
SlotSummary(c, total_players) ==
    IF c.available = total_players THEN AllLabel
    ELSE IF c.available = 2 /\ c.tentative = 1 THEN PossibleLabel(total_players)
    ELSE None

\* results after the loop of lines 105-119.
Results(ts, ps) ==
    LET abt == availability_by_time(ts, ps)
    IN  [k \in 1 .. Len(ts) |-> <<ts[k], SlotSummary(counts(abt[ts[k]]), Len(ps))>>]

\* The compression loop's iteration with an absent label not closing the run.
CompressVisitMutant(st, res, k) ==
    LET time == res[k][1]
        summary == res[k][2]
    IN  IF ~Truthy(summary)
        THEN st
        ELSE IF st[3] = summary
             THEN st
             ELSE << IF Truthy(st[3])
                     THEN Append(st[1], <<st[2], res[k - 1][1], st[3]>>)
                     ELSE st[1],
                     time, summary >>

\* One iteration of the compression loop (lines 123-134) on results item k
\* (1-based), from the loop state st = <<compressed, start, prev_summary>>.
CompressVisit(st, res, k) ==
    LET time == res[k][1]
        summary == res[k][2]
    IN  IF ~Truthy(summary)
        THEN IF Truthy(st[3])
             THEN <<Append(st[1], <<st[2], res[k - 1][1], st[3]>>), None, None>>
             ELSE st
        ELSE IF st[3] = summary
             THEN st
             ELSE << IF Truthy(st[3])
                     THEN Append(st[1], <<st[2], res[k - 1][1], st[3]>>)
                     ELSE st[1],
                     time, summary >>

\* Lines 135-136.
CompressFlush(st, res) ==
    IF Truthy(st[3]) THEN Append(st[1], <<st[2], res[Len(res)][1], st[3]>>) ELSE st[1]

RECURSIVE CompressLoop(_, _, _)
CompressLoop(st, res, k) ==
    IF k > Len(res) THEN CompressFlush(st, res)
    ELSE CompressLoop(CompressVisit(st, res, k), res, k + 1)

Compress(res) == CompressLoop(<<<<>>, None, None>>, res, 1)

\* Lines 143-146: the line of one compressed range.
RangeLine(r) ==
    IF r[1] = r[2]
    THEN <<"**">> \o r[1] \o <<"** -- ">> \o r[3]
    ELSE <<"**">> \o r[1] \o <<"-">> \o r[2] \o <<"** -- ">> \o r[3]

\* sep.join(parts)
RECURSIVE Join(_, _)
Join(sep, parts) ==
    IF parts = <<>> THEN <<>>
    ELSE IF Len(parts) = 1 THEN parts[1]
    ELSE parts[1] \o sep \o Join(sep, Tail(parts))

\* Lines 138-148.
Render(name, comp) ==
    IF comp = <<>> THEN <<>>
    ELSE Join(<<"\n">>,
              << <<"__">> \o name \o <<"__">> >>
                  \o [k \in 1 .. Len(comp) |-> RangeLine(comp[k])])

process_day(name, ts, ps) == Render(name, Compress(Results(ts, ps)))

-----------------------------------------------------------------------------
(* process_day, one step at a time.                                        *)

Statuses == {"available", "tentative", "unavailable", "unknown"}
PlayerNames == { <<"a">>, <<"b">>, <<"c">> }
SlotLabels == { <<"18:00">>, <<"19:00">>, <<"20:00">> }

SeqsUpTo(S, n) == UNION { [1 .. k -> S] : k \in 0 .. n }
DictsOn(K, V) == UNION { [D -> V] : D \in SUBSET K }

\* Days of one slot with up to MaxPlayers players of any names and any
\* statuses, a status possibly missing from a player's dict.
TallyDays ==
    { <<ts, ps>> : ts \in { << <<"18:00">> >> },
                   ps \in SeqsUpTo(PlayerNames \X DictsOn({<<"18:00">>}, Statuses),
                                   MaxPlayers) \ {<<>>} }

\* Days of up to MaxSlots slots (labels may repeat) with three players, two
\* of them available throughout: every sequence of labels process_day can
\* produce for three players arises.
FullOn(ts, s) == [t \in Range(ts) |-> s]
RunDays ==
    UNION { { <<ts, << <<<<"a">>, FullOn(ts, "available")>>,
                       <<<<"b">>, FullOn(ts, "available")>>,
                       <<<<"c">>, d>> >> >> :
              d \in [Range(ts) -> {"available", "tentative", "unavailable"}] } :
            ts \in SeqsUpTo(SlotLabels, MaxSlots) }

InitDay ==
    /\ pc = "day_tally"
    /\ day_name = <<"Pon">>
    /\ \E d \in TallyDays \cup RunDays : times = d[1] /\ players = d[2]
    /\ idleDay /\ idleColor /\ idleWeek

DayTally ==
    /\ pc = "day_tally"
    /\ results' = Results(times, players)
    /\ pc' = "day_compress"
    /\ UNCHANGED <<colorVars, day_name, times, players, ci, start, prev_summary,
                   compressed, day_out, weekVars>>

DayCompressVisit ==
    /\ pc = "day_compress"
    /\ ci < Len(results)
    /\ LET st == CompressVisit(<<compressed, start, prev_summary>>, results, ci + 1)
       IN  compressed' = st[1] /\ start' = st[2] /\ prev_summary' = st[3]
    /\ ci' = ci + 1
    /\ UNCHANGED <<pc, colorVars, day_name, times, players, results, day_out, weekVars>>

DayCompressFlush ==
    /\ pc = "day_compress"
    /\ ci = Len(results)
    /\ compressed' = CompressFlush(<<compressed, start, prev_summary>>, results)
    /\ pc' = "day_render"
    /\ UNCHANGED <<colorVars, day_name, times, players, results, ci, start,
                   prev_summary, day_out, weekVars>>

DayRender ==
    /\ pc = "day_render"
    /\ day_out' = Render(day_name, compressed)
    /\ pc' = "day_done"
    /\ UNCHANGED <<colorVars, day_name, times, players, results, ci, start,
                   prev_summary, compressed, weekVars>>

NextDay == DayTally \/ DayCompressVisit \/ DayCompressFlush \/ DayRender

SpecDay == InitDay /\ [][NextDay]_vars

-----------------------------------------------------------------------------
(* build_week_message, main, send_to_discord.                              *)

\* s.strip(): leading and trailing whitespace removed.
RECURSIVE lstrip(_)
lstrip(s) == IF s # <<>> /\ Head(s) = " " THEN lstrip(Tail(s)) ELSE s
RECURSIVE rstrip(_)
rstrip(s) ==
    IF s # <<>> /\ s[Len(s)] = " " THEN rstrip(SubSeq(s, 1, Len(s) - 1)) ELSE s
strip(s) == rstrip(lstrip(s))

\* s.lower(), on the tokens the grids are made of.
LowerToken(c) ==
    CASE c = "Kto:" -> "kto:"
      [] c = "Kto" -> "kto"
      [] c = "Dzien:" -> "dzien:"
      [] c = "Pon" -> "pon"
      [] c = "Wt" -> "wt"
      [] OTHER -> c
lower(s) == [k \in 1 .. Len(s) |-> LowerToken(s[k])]

\* NOW.isocalendar()[1]: NOW is held as its isocalendar() triple
\* <<ISO year, ISO week, ISO weekday>>.
WEEK_NUMBER == NOW[2]

\* Line 57.
HeaderTimes(header_values) ==
    [k \in 1 .. (IF Len(header_values) > 2 THEN Len(header_values) - 2 ELSE 0) |->
        strip(Get(header_values[k + 2], "formattedValue", <<>>))]

\* Lines 77-83: player_statuses after the loop over enumerate(times, start=2),
\* slots k .. Len(ts) still to visit.
RECURSIVE PlayerStatuses(_, _, _, _)
PlayerStatuses(d, values, ts, k) ==
    IF k > Len(ts) THEN d
    ELSE IF k + 2 <= Len(values)
         THEN PlayerStatuses(
                  Put(d, ts[k],
                      color_to_status(
                          Get(Get(values[k + 2], "userEnteredFormat", EmptyDict),
                              "backgroundColor", EmptyDict))),
                  values, ts, k + 1)
         ELSE PlayerStatuses(d, values, ts, k + 1)

\* Lines 68-71 and 86-89: week_summary after the day is handed to process_day.
FlushDay(ws, name, ps, ts) ==
    IF Truthy(name) /\ Truthy(ps)
    THEN LET day_summary == process_day(name, ts, ps)
         IN  IF Truthy(day_summary) THEN Append(ws, day_summary) ELSE ws
    ELSE ws

DayCell(values) ==
    IF Len(values) > 0 THEN strip(Get(values[1], "formattedValue", <<>>)) ELSE <<>>
PlayerCell(values) ==
    IF Len(values) > 1 THEN strip(Get(values[2], "formattedValue", <<>>)) ELSE <<>>

StartsDay(day_cell) ==
    Truthy(day_cell) /\ lower(day_cell) \notin { <<"dzien:">>, <<"kto:">> }
NamesPlayer(player_name) ==
    Truthy(player_name) /\ lower(player_name) \notin { <<"kto">>, <<"kto:">> }

\* The row loop's body with the player appended before the day is switched.
RowVisitMutant(st, row, ts) ==
    LET values == Get(row, "values", <<>>)
        day_cell == DayCell(values)
        player_name == PlayerCell(values)
        ps == IF NamesPlayer(player_name)
              THEN Append(st[3], <<player_name, PlayerStatuses(EmptyDict, values, ts, 1)>>)
              ELSE st[3]
    IN  IF values = <<>> THEN st
        ELSE IF StartsDay(day_cell)
             THEN <<FlushDay(st[1], st[2], ps, ts), day_cell, <<>>>>
             ELSE <<st[1], st[2], ps>>

\* One iteration of the row loop (lines 60-84) on a data row, from the loop
\* state st = <<week_summary, day_name, players>>.
RowVisit(st, row, ts) ==
    LET values == Get(row, "values", <<>>)
        day_cell == DayCell(values)
        player_name == PlayerCell(values)
        st1 == IF StartsDay(day_cell)
               THEN <<FlushDay(st[1], st[2], st[3], ts), day_cell, <<>>>>
               ELSE st
    IN  IF values = <<>> THEN st
        ELSE IF ~NamesPlayer(player_name) THEN st1
        ELSE << st1[1], st1[2],
                Append(st1[3], <<player_name, PlayerStatuses(EmptyDict, values, ts, 1)>>) >>

\* The title with the commented-out timestamp of line 91 put into it.
WeekTitleMutant(now) ==
    <<"**Kalendarzyk grania na tydzien ", ToString(now[2]), "** ",
      ToString(now[3]), "\n\n">>

\* The title of line 95, for the process whose NOW is now.
WeekTitle(now) == <<"**Kalendarzyk grania na tydzien ", ToString(now[2]), "** \n\n">>

\* Lines 86-95 with every day's summary kept, an empty one too.
WeekMessageMutant(st, ts, now) ==
    LET ws == IF Truthy(st[2]) /\ Truthy(st[3])
              THEN Append(st[1], process_day(st[2], ts, st[3]))
              ELSE st[1]
    IN  IF ws = <<>> THEN <<>> ELSE WeekTitle(now) \o Join(<<"\n\n">>, ws)

\* Lines 86-95: the returned text, from the loop state after the last row.
WeekMessage(st, ts, now) ==
    LET ws == FlushDay(st[1], st[2], st[3], ts)
    IN  IF ws = <<>> THEN <<>> ELSE WeekTitle(now) \o Join(<<"\n\n">>, ws)

-----------------------------------------------------------------------------
(* A run of the process: module load, main, build_week_message one row at  *)
(* a time, send_to_discord.                                                *)

Cell(text) == [formattedValue |-> text]
Coloured(c) == [userEnteredFormat |-> [backgroundColor |-> c]]
Green == [red |-> 0, green |-> Scale, blue |-> 0]
Red == [red |-> Scale, green |-> 0, blue |-> 0]
\* Data rows: without cells; of a day cell alone; a repeated header row; a
\* player row under a header literal in the day column; a day row with a
\* header literal in the player column; and the rows of a day cell (none, or
\* one of two days), a player cell (one of two players) and one slot cell
\* (green or red).
DataRows ==
    { EmptyDict,
      [values |-> <<Cell(<<"Pon">>)>>],
      [values |-> <<Cell(<<"Dzien:">>), Cell(<<"Kto:">>)>>],
      [values |-> <<Cell(<<"Kto:">>), Cell(<<"a", " ">>), Coloured(Green)>>],
      [values |-> <<Cell(<<"Pon">>), Cell(<<"Kto">>), Coloured(Green)>>] }
        \cup { [values |-> <<d, n, c>>] :
                 d \in { EmptyDict, Cell(<<"Pon">>), Cell(<<" ", "Wt">>) },
                 n \in { Cell(<<"a", " ">>), Cell(<<"b">>) },
                 c \in { Coloured(Green), Coloured(Red) } }


\* Header rows: without cells, without a slot column, with one slot column.
HeaderRows ==
    { EmptyDict,
      [values |-> <<Cell(<<"Dzien:">>), Cell(<<"Kto:">>)>>],
      [values |-> <<Cell(<<"Dzien:">>), Cell(<<"Kto:">>), Cell(<<" ", "18:00">>)>>] }

Grids ==
    { <<>> } \cup
    { <<h>> \o rows : h \in HeaderRows, rows \in SeqsUpTo(DataRows, MaxRows) }

\* isocalendar() of the clock at process start: two days of one ISO week and
\* one of the next.
Nows == { <<2026, 45, 4>>, <<2026, 45, 5>>, <<2026, 46, 1>> }
WebhookUrls == { <<>>, <<"https://discord/webhook">> }

\* Lines 9-19 have run: the environment and the clock are read.
Init ==
    /\ pc = "main"
    /\ rowData \in Grids
    /\ NOW \in Nows
    /\ DISCORD_WEBHOOK_URL \in WebhookUrls
    /\ starts = <<NOW>>
    /\ ri = 0 /\ week_summary = <<>> /\ msg = None /\ posted = <<>> /\ printed = <<>>
    /\ day_name = None /\ times = <<>> /\ players = <<>>
    /\ idleColor /\ idleDay

\* Lines 56-58; rowData[0] raises IndexError on an empty list.
BuildBegin ==
    /\ pc = "main"
    /\ IF rowData = <<>>
       THEN pc' = "error" /\ UNCHANGED times
       ELSE /\ pc' = "rows"
            /\ times' = HeaderTimes(Get(rowData[1], "values", <<>>))
    /\ week_summary' = <<>> /\ day_name' = None /\ players' = <<>> /\ ri' = 0
    /\ UNCHANGED <<colorVars, dayVars, rowData, NOW, DISCORD_WEBHOOK_URL, msg,
                   posted, printed, starts>>

\* Lines 60-84 for the data row rowData[1:][ri].
BuildRow ==
    /\ pc = "rows"
    /\ ri < Len(rowData) - 1
    /\ LET st == RowVisit(<<week_summary, day_name, players>>, rowData[ri + 2], times)
       IN  week_summary' = st[1] /\ day_name' = st[2] /\ players' = st[3]
    /\ ri' = ri + 1
    /\ UNCHANGED <<pc, colorVars, dayVars, times, rowData, NOW, DISCORD_WEBHOOK_URL,
                   msg, posted, printed, starts>>

\* Lines 86-95, then line 167.
BuildReturn ==
    /\ pc = "rows"
    /\ ri = Len(rowData) - 1
    /\ week_summary' = FlushDay(week_summary, day_name, players, times)
    /\ msg' = WeekMessage(<<week_summary, day_name, players>>, times, NOW)
    /\ printed' = Append(printed, msg')
    /\ pc' = "send"
    /\ UNCHANGED <<colorVars, dayVars, day_name, times, players, rowData, NOW,
                   DISCORD_WEBHOOK_URL, ri, posted, starts>>

\* send_to_discord(msg), lines 153-159.
Send ==
    /\ pc = "send"
    /\ posted' = IF ~Truthy(DISCORD_WEBHOOK_URL) THEN posted ELSE Append(posted, msg)
    /\ pc' = "done"
    /\ UNCHANGED <<colorVars, dayVars, day_name, times, players, rowData, NOW,
                   DISCORD_WEBHOOK_URL, ri, week_summary, msg, printed, starts>>

Next == BuildBegin \/ BuildRow \/ BuildReturn \/ Send

Spec == Init /\ [][Next]_vars

\* The process is started once more on the same grid: lines 9-19 run again.
Restart ==
    /\ pc = "done"
    /\ Len(starts) < 2
    /\ NOW' \in Nows
    /\ starts' = Append(starts, NOW')
    /\ pc' = "main"
    /\ ri' = 0 /\ week_summary' = <<>> /\ msg' = None
    /\ day_name' = None /\ times' = <<>> /\ players' = <<>>
    /\ UNCHANGED <<colorVars, dayVars, rowData, DISCORD_WEBHOOK_URL, posted, printed>>

NextRuns == Next \/ Restart

SpecRuns == Init /\ [][NextRuns]_vars

-----------------------------------------------------------------------------
(* Properties of process_day (SpecDay).                                    *)

Tallied == pc \in {"day_compress", "day_render", "day_done"}
Compressed == pc \in {"day_render", "day_done"}

\* The state a player record holds for slot label t.
StatusAt(k, t) == IF t \in DOMAIN players[k][2] THEN players[k][2][t] ELSE "unknown"

NamesOfDay == { players[k][1] : k \in 1 .. Len(players) }
LastRecordOf(n) ==
    CHOOSE k \in 1 .. Len(players) :
        players[k][1] = n /\ \A j \in (k + 1) .. Len(players) : players[j][1] # n

\* The count process_day tallies for state s at slot label t: the names
\* whose last record holds s.
TalliedCount(t, s) == Cardinality({ n \in NamesOfDay : StatusAt(LastRecordOf(n), t) = s })

\* C1: for every slot of a day, the four per-state counts process_day
\* computes sum to total_players, also when records share a player name.
C1_TallyConservation ==
    Tallied =>
        \A k \in 1 .. Len(times) :
            LET c == counts(availability_by_time(times, players)[times[k]])
            IN  c.available + c.tentative + c.unavailable + c.unknown = Len(players)

\* C2: every slot's label follows the precedence: "all available" iff the
\* available count equals the total player count; otherwise "possible" iff
\* the available count is exactly 2 and the tentative count exactly 1,
\* whatever the total; otherwise no label.  Three players in the states
\* available, available, unavailable get no label.
C2_LabelPrecedence ==
    Tallied =>
        /\ Len(results) = Len(times)
        /\ \A k \in 1 .. Len(times) :
            LET t == times[k]
                total == Len(players)
                all == TalliedCount(t, "available") = total
                possible == /\ TalliedCount(t, "available") = 2
                            /\ TalliedCount(t, "tentative") = 1
                label == results[k][2]
            IN  /\ results[k][1] = t
                /\ label = AllLabel <=> all
                /\ label = PossibleLabel(total) <=> (~all /\ possible)
                /\ label = None <=> (~all /\ ~possible)
                /\ ( /\ total = 3
                     /\ \E a, b, c \in 1 .. 3 :
                            /\ {a, b, c} = 1 .. 3
                            /\ StatusAt(a, t) = "available"
                            /\ StatusAt(b, t) = "available"
                            /\ StatusAt(c, t) = "unavailable" )
                   => label = None

\* A slot labelled "possible" on a day of more than three player records.
C2_Witness ==
    /\ Tallied
    /\ Len(players) = 4
    /\ \E k \in 1 .. Len(results) : results[k][2] = PossibleLabel(4)

\* The maximal runs of consecutive slots carrying the identical non-absent
\* label, as pairs of slot indices.
Label(k) == results[k][2]
IsRun(s, e) ==
    /\ s <= e
    /\ Truthy(Label(s))
    /\ \A k \in s .. e : Label(k) = Label(s)
    /\ s = 1 \/ Label(s - 1) # Label(s)
    /\ e = Len(results) \/ Label(e + 1) # Label(e)
RunStarts == { s \in 1 .. Len(results) : \E e \in s .. Len(results) : IsRun(s, e) }
RunStart(n) == CHOOSE s \in RunStarts : Cardinality({ x \in RunStarts : x < s }) = n - 1
RunEnd(s) == CHOOSE e \in s .. Len(results) : IsRun(s, e)

\* C3: the compression loop emits exactly the maximal runs of consecutive
\* slots with the identical non-absent label, in slot order, each as (label
\* of its first slot, label of its last slot, qualification label); labels
\* [A, A, absent, B, B] give exactly (slot 1 - slot 2, A), (slot 4 - slot 5, B).
C3_MaximalRuns ==
    Compressed =>
        /\ Len(compressed) = Cardinality(RunStarts)
        /\ \A n \in 1 .. Len(compressed) :
              compressed[n] = << times[RunStart(n)], times[RunEnd(RunStart(n))],
                                 Label(RunStart(n)) >>
        /\ ( /\ Len(results) = 5
             /\ Label(1) # None /\ Label(2) = Label(1) /\ Label(3) = None
             /\ Label(4) \notin {None, Label(1)} /\ Label(5) = Label(4) )
           => compressed = << <<times[1], times[2], Label(1)>>,
                              <<times[4], times[5], Label(4)>> >>

\* Five slots labelled [A, A, absent, B, B] have been compressed.
C3_Witness ==
    /\ Compressed
    /\ Len(results) = 5
    /\ Label(1) = AllLabel /\ Label(2) = AllLabel /\ Label(3) = None
    /\ Label(4) = PossibleLabel(3) /\ Label(5) = PossibleLabel(3)
    /\ Len(compressed) = 2

\* C8: in the rendered text a range of exactly one slot is the slot's label
\* alone and a range of more than one slot is "start-end" with the labels of
\* its first and last slot, for every header row.
C8_RangeRendering ==
    (pc = "day_done" /\ RunStarts # {}) =>
        day_out =
            Join(<<"\n">>,
                 << <<"__">> \o day_name \o <<"__">> >> \o
                 [ n \in 1 .. Cardinality(RunStarts) |->
                     LET s == RunStart(n)
                         e == RunEnd(s)
                     IN  IF s = e
                         THEN <<"**">> \o times[s] \o <<"** -- ">> \o Label(s)
                         ELSE <<"**">> \o times[s] \o <<"-">> \o times[e]
                                  \o <<"** -- ">> \o Label(s) ])

-----------------------------------------------------------------------------
(* Properties of a run (Spec) and of two runs on one grid (SpecRuns).      *)

\* The grid as section 4.2 of the specification reads it: data row r of
\* rowData (r >= 2), its marker and player texts, the rows that start a day
\* and the rows that name a player.
ValuesOf(r) == IF "values" \in DOMAIN rowData[r] THEN rowData[r].values ELSE <<>>
TextOf(r, col) ==
    IF col <= Len(ValuesOf(r)) /\ "formattedValue" \in DOMAIN ValuesOf(r)[col]
    THEN strip(ValuesOf(r)[col].formattedValue)
    ELSE <<>>
IsDayRow(r) ==
    TextOf(r, 1) # <<>> /\ lower(TextOf(r, 1)) \notin { <<"dzien:">>, <<"kto:">> }
IsPlayerRow(r) ==
    TextOf(r, 2) # <<>> /\ lower(TextOf(r, 2)) \notin { <<"kto">>, <<"kto:">> }

DataIdx == 2 .. Len(rowData)
DayRowSet == { r \in DataIdx : IsDayRow(r) }
\* The day row whose day data row r belongs to (0: no day has started).
DayOf(r) ==
    IF \E d \in DayRowSet : d <= r
    THEN CHOOSE d \in DayRowSet : d <= r /\ \A e \in DayRowSet : e <= r => e <= d
    ELSE 0

Sorted(S) == [n \in 1 .. Cardinality(S) |->
                CHOOSE x \in S : Cardinality({ y \in S : y < x }) = n - 1]

\* The colour of the row's cell in column col.
ColourOf(r, col) ==
    LET c == ValuesOf(r)[col]
    IN  IF "userEnteredFormat" \in DOMAIN c
           /\ "backgroundColor" \in DOMAIN c.userEnteredFormat
        THEN c.userEnteredFormat.backgroundColor
        ELSE EmptyDict
\* The player record of row r: for every slot label with a column in the
\* row, the state of the last such column.
RecordOf(r) ==
    LET cols == { k \in 1 .. Len(times) : k + 2 <= Len(ValuesOf(r)) }
    IN  << TextOf(r, 2),
           [ t \in { times[k] : k \in cols } |->
               LET k == CHOOSE k \in cols :
                           times[k] = t /\ \A j \in cols : times[j] = t => j <= k
               IN  color_to_status(ColourOf(r, k + 2)) ] >>

\* The player records of the day that day row d starts, among rows d .. last.
PlayersOfDay(d, last) ==
    LET rows == Sorted({ r \in d .. last : IsPlayerRow(r) /\ DayOf(r) = d })
    IN  [n \in 1 .. Len(rows) |-> RecordOf(rows[n])]

\* C4: send_to_discord never posts a message whose content is empty.
C4_NoEmptyPost == \A k \in 1 .. Len(posted) : posted[k] # <<>>

\* C5: on a grid of zero rows or of one row, build_week_message does not
\* raise; it produces no days and the empty digest.
C5_NoHeaderNoError ==
    Len(rowData) < 2 =>
        /\ pc # "error"
        /\ pc \in {"send", "done"} => (week_summary = <<>> /\ msg = <<>>)

Body(m) == SubSeq(m, Len(WeekTitle(NOW)) + 1, Len(m))

C7_SharedRow ==
    [][ ( /\ pc = "rows" /\ ri' = ri + 1
          /\ IsDayRow(ri + 2) /\ IsPlayerRow(ri + 2) )
        => /\ day_name' = TextOf(ri + 2, 1)
           /\ players' = << RecordOf(ri + 2) >>
           /\ LET d == IF ri + 1 >= 2 THEN DayOf(ri + 1) ELSE 0
              IN  IF d = 0
                  THEN week_summary' = week_summary
                  ELSE /\ day_name = TextOf(d, 1)
                       /\ players = PlayersOfDay(d, ri + 1)
                       /\ week_summary' =
                            IF players = <<>> THEN week_summary
                            ELSE LET t == process_day(day_name, times, players)
                                 IN  IF t = <<>> THEN week_summary
                                     ELSE Append(week_summary, t)
      ]_vars

\* The second of two rows that each start a day and name a player has been
\* visited, and the first day was finalized into a section.
C7_Witness ==
    /\ pc = "rows" /\ ri = 2
    /\ IsDayRow(2) /\ IsPlayerRow(2) /\ IsDayRow(3) /\ IsPlayerRow(3)
    /\ Len(players) = 1 /\ Len(week_summary) = 1

\* The days of the grid in row order, each with its player records, and the
\* sections of those with a player record and a qualifying slot.
DaysOfGrid ==
    LET ds == Sorted(DayRowSet)
    IN  [n \in 1 .. Len(ds) |-> << TextOf(ds[n], 1), PlayersOfDay(ds[n], Len(rowData)) >>]
HasSection(day) ==
    /\ day[2] # <<>>
    /\ \E k \in 1 .. Len(times) : Results(times, day[2])[k][2] # None
SectionsOfGrid ==
    LET ds == SelectSeq(DaysOfGrid, HasSection)
    IN  [n \in 1 .. Len(ds) |-> process_day(ds[n][1], times, ds[n][2])]

\* C9: the digest holds one section for each day with at least one player
\* record and at least one qualifying slot, in the order the days start,
\* and none for any other day; it is empty iff no day yields a section.
C9_Sections ==
    pc \in {"send", "done"} =>
        /\ week_summary = SectionsOfGrid
        /\ msg = <<>> <=> SectionsOfGrid = <<>>
        /\ msg # <<>> => msg = WeekTitle(NOW) \o Join(<<"\n\n">>, SectionsOfGrid)
        /\ \A n \in 1 .. Len(week_summary) : week_summary[n] # <<>>

\* Of two days of the grid, one yields a section and the other does not.
C9_Witness ==
    /\ pc = "done"
    /\ Cardinality(DayRowSet) = 2
    /\ Len(week_summary) = 1

====
